---------------------------- MODULE Spec2Model ----------------------------
(***************************************************************************)
(* wait-for-green: the status-aggregation engine (ignore filter,           *)
(* classifiers, deduplication, reduction) and the poll loop of run().      *)
(*                                                                         *)
(* Two builds of the action are in the repository and both are modelled:   *)
(*   "main"  - src/src/main.ts: check runs keyed by name; an empty set of  *)
(*             check runs reduces to Pending;                              *)
(*   "suite" - src/unnamed/part_004: check runs keyed by name|suite id;    *)
(*             an empty set of check runs reduces to Success.              *)
(* combinedStatusToStatus and run() behave alike in both; the summary     *)
(* table build "suite" writes in each attempt is output only and is left  *)
(* out.                                                                    *)
(*                                                                         *)
(* Strings the code takes apart (the ignore rule, the names it is matched  *)
(* against) are sequences of one-character strings; strings the code only  *)
(* compares (raw states, conclusions) are TLA+ strings.  An absent (null / *)
(* undefined) field is <<>>, a present one is <<v>>.  A timestamp string   *)
(* is given by its whole seconds since the epoch, and Date.getTime() turns *)
(* it into milliseconds.  Names are assumed not to be members of           *)
(* Object.prototype ("constructor", "toString", ...).                      *)
(*                                                                         *)
(* Specifications:                                                         *)
(*   Spec         - run(): the inputs, the poll loop, its two requests     *)
(*   FairSpec     - Spec with every request answered, every timer fired    *)
(*   SpecStart    - run() up to its first await, over every input string   *)
(*   SpecAgg      - checkChecks / combinedStatusToStatus on one response   *)
(*   SpecSuite    - the same with one check name in two check suites       *)
(*   SpecTimes    - the same with every shape of the times of a check run  *)
(*   SpecIgnore   - shouldIgnoreCheck on its own                           *)
(*   SpecClassify - checkToStatus and stringToStatus on their own          *)
(***************************************************************************)
EXTENDS Integers, Sequences, FiniteSets, TLC

VARIABLES
    pc,           \* where run() is: "start", "fetching", "sleeping", "done"
    variant,      \* which build runs: "main" or "suite"
    config,       \* the inputs and the environment run() reads before the loop
    ignored,      \* core.getInput('ignored_checks')
    maxAttempts,  \* parseInt(core.getInput('max_attempts') || '1000', 10)
    attempt,      \* the loop variable of run()
    checksP,      \* promise of checkChecks: "idle", "pending", "resolved", "rejected"
    statusesP,    \* promise of checkStatuses
    checkFeed,    \* check_runs of the last listForRef response
    statusFeed,   \* statuses of the last getCombinedStatusForRef response
    checks,       \* value checkChecks resolved with ("none" before)
    statuses,     \* value checkStatuses resolved with ("none" before)
    output,       \* core.setOutput('success', v): <<>> until set, then <<v>>
    outputs,      \* how many times core.setOutput was called
    failed,       \* core.setFailed was called
    reason,       \* how run() ended: "none", "success", "failure", "timeout", "error"
    fetches,      \* [checks |-> n, statuses |-> n]: requests issued to each source
    joined,       \* attempts whose Promise.all resolved
    retries,      \* attempts that ended non-terminal (fell through to sleep)
    sleeps,       \* calls of sleep(checkIntervalMs)
    args,         \* arguments of the helper function called on its own
    returned,     \* what that call returned ("none" before)
    warnings      \* messages of core.warning since the loop head was last passed

vars == <<pc, variant, config, ignored, maxAttempts, attempt, checksP,
          statusesP, checkFeed, statusFeed, checks, statuses, output, outputs, failed,
          reason, fetches, joined, retries, sleeps, args, returned,
          warnings>>

-----------------------------------------------------------------------------
(* Bounds of the model *)

MaxAttempts == 3
MaxFeedLen == 2
MaxTime == 2
MaxInputLen == 2
MaxRuleLen == 3

-----------------------------------------------------------------------------
(* enum Status *)

Unknown == "unknown"
Failure == "failure"
Canceled == "canceled"
Skipped == "skipped"
Pending == "pending"
Success == "success"

Status == {Unknown, Failure, Canceled, Skipped, Pending, Success}

None == <<>>
Some(v) == <<v>>

\* a ?? b
Coalesce(a, b) == IF a # None THEN a ELSE b

-----------------------------------------------------------------------------
(* shouldIgnoreCheck *)

\* String.prototype.split(','): the items between the commas, in order
RECURSIVE Split(_)
Split(s) ==
    IF \A i \in DOMAIN s : s[i] # ","
    THEN <<s>>
    ELSE LET i == CHOOSE j \in DOMAIN s :
                      s[j] = "," /\ \A k \in 1..(j - 1) : s[k] # ","
         IN <<SubSeq(s, 1, i - 1)>> \o Split(SubSeq(s, i + 1, Len(s)))

\* Array.prototype.includes
Includes(arr, x) == \E i \in DOMAIN arr : arr[i] = x

\* new RegExp(pattern).test(name) for a pattern of literal characters: an
\* unanchored match, so the pattern occurs somewhere in the name (the empty
\* pattern matches every name)
RegExpTest(pattern, name) ==
    \E i \in 1..(Len(name) + 1) :
        /\ i + Len(pattern) - 1 <= Len(name)
        /\ SubSeq(name, i, i + Len(pattern) - 1) = pattern

shouldIgnoreCheck(ignoredRule, checkName) ==
    IF ignoredRule = <<>>
    THEN FALSE
    ELSE IF Head(ignoredRule) = "/" /\ ignoredRule[Len(ignoredRule)] = "/"
         THEN RegExpTest(SubSeq(ignoredRule, 2, Len(ignoredRule) - 1), checkName)
         ELSE Includes(Split(ignoredRule), checkName)

-----------------------------------------------------------------------------
(* Classifiers *)

\* checkToStatus as it was in an earlier version: 'in_progres' for
\* 'in_progress', no 'canceled'
checkToStatusEarlier(status) ==
    CASE status \in {"success", "neutral"} -> Success
      [] status \in {"failure", "timed_out"} -> Failure
      [] status \in {"pending", "action_required", "queued", "in_progres"} -> Pending
      [] status = "skipped" -> Skipped
      [] status = "cancelled" -> Canceled
      [] OTHER -> Unknown

checkToStatus(status) ==
    CASE status \in {"success", "neutral"} -> Success
      [] status \in {"failure", "timed_out"} -> Failure
      [] status \in {"pending", "action_required", "queued", "in_progress"} -> Pending
      [] status = "skipped" -> Skipped
      [] status \in {"canceled", "cancelled"} -> Canceled
      [] OTHER -> Unknown

\* stringToStatus with the state 'error' of a commit status read as a failure
stringToStatusErrorFails(status) ==
    CASE status = "success" -> Success
      [] status \in {"failure", "error"} -> Failure
      [] status = "pending" -> Pending
      [] OTHER -> Unknown

stringToStatus(status) ==
    CASE status = "success" -> Success
      [] status = "failure" -> Failure
      [] status = "pending" -> Pending
      [] OTHER -> Unknown

\* what checkToStatus passes to core.warning
checkToStatusWarnings(status) ==
    IF checkToStatus(status) = Unknown
    THEN {<<"unhandled check status", status>>}
    ELSE {}

\* what stringToStatus passes to core.warning
stringToStatusWarnings(status) ==
    IF stringToStatus(status) = Unknown
    THEN {<<"unhandled status", status>>}
    ELSE {}

\* new Date(ts).getTime(): milliseconds since the epoch
DateGetTime(ts) == 1000 * ts

-----------------------------------------------------------------------------
(* Reports as the two endpoints return them *)

\* one element of statuses[] of getCombinedStatusForRef
SimpleStatus(context, state, updated_at) ==
    [context |-> context, state |-> state, updated_at |-> updated_at]

\* one element of check_runs[] of checks.listForRef; suite is check_suite?.id
CheckRun(name, suite, completed_at, started_at, conclusion, status) ==
    [name |-> name, suite |-> suite, completed_at |-> completed_at,
     started_at |-> started_at, conclusion |-> conclusion, status |-> status]

\* obj[key] = val on a Record<string, ...>
Put(map, key, val) ==
    [k \in (DOMAIN map) \cup {key} |-> IF k = key THEN val ELSE map[k]]

\* Object.values(map).map(x => x[2]) as the set of its values; every use the
\* code makes of the array (includes, every, length === 0) is decided by this
\* set and by whether the map has a key
StatusValues(map) == {map[k][2] : k \in DOMAIN map}

-----------------------------------------------------------------------------
(* combinedStatusToStatus *)

\* StatusStep as it was before the ignore rule existed: no report is ignored
StatusStepNoIgnore(statusByContext, simpleStatus, ignoredRule) ==
    LET ts == DateGetTime(simpleStatus.updated_at)
        context == simpleStatus.context
    IN IF context \notin DOMAIN statusByContext
          \/ statusByContext[context][1] < ts
       THEN Put(statusByContext, context,
                <<ts, stringToStatus(simpleStatus.state)>>)
       ELSE statusByContext

\* the body of status.statuses.forEach: statusByContext after one more report
StatusStep(statusByContext, simpleStatus, ignoredRule) ==
    IF shouldIgnoreCheck(ignoredRule, simpleStatus.context)
    THEN statusByContext
    ELSE LET ts == DateGetTime(simpleStatus.updated_at)
             context == simpleStatus.context
         IN IF context \notin DOMAIN statusByContext
               \/ statusByContext[context][1] < ts
            THEN Put(statusByContext, context,
                     <<ts, stringToStatus(simpleStatus.state)>>)
            ELSE statusByContext

RECURSIVE StatusByContext(_, _)
StatusByContext(statusList, ignoredRule) ==
    IF statusList = <<>>
    THEN <<>>
    ELSE StatusStep(StatusByContext(SubSeq(statusList, 1, Len(statusList) - 1),
                                    ignoredRule),
                    statusList[Len(statusList)], ignoredRule)

\* ReduceStatuses without its Pending rule
ReduceStatusesNoPending(statusByContext) ==
    LET statusValues == StatusValues(statusByContext)
    IN IF Failure \in statusValues \/ Canceled \in statusValues
       THEN Failure
       ELSE IF (\A val \in statusValues : val = Success \/ val = Skipped)
               \/ DOMAIN statusByContext = {}
       THEN Success
       ELSE Unknown

\* the precedence rules that end combinedStatusToStatus
ReduceStatuses(statusByContext) ==
    LET statusValues == StatusValues(statusByContext)
    IN IF Failure \in statusValues \/ Canceled \in statusValues
       THEN Failure
       ELSE IF Pending \in statusValues
       THEN Pending
       ELSE IF (\A val \in statusValues : val = Success \/ val = Skipped)
               \/ DOMAIN statusByContext = {}
       THEN Success
       ELSE Unknown

combinedStatusToStatus(statusList, ignoredRule) ==
    ReduceStatuses(StatusByContext(statusList, ignoredRule))

\* the warnings of one pass of the forEach body: the classifier is called
\* only for a report that is stored
StatusStepWarnings(statusByContext, simpleStatus, ignoredRule) ==
    IF shouldIgnoreCheck(ignoredRule, simpleStatus.context)
    THEN {}
    ELSE IF simpleStatus.context \notin DOMAIN statusByContext
            \/ statusByContext[simpleStatus.context][1]
                  < DateGetTime(simpleStatus.updated_at)
    THEN stringToStatusWarnings(simpleStatus.state)
    ELSE {}

RECURSIVE StatusByContextWarnings(_, _)
StatusByContextWarnings(statusList, ignoredRule) ==
    IF statusList = <<>>
    THEN {}
    ELSE LET before == SubSeq(statusList, 1, Len(statusList) - 1)
         IN StatusByContextWarnings(before, ignoredRule)
            \cup StatusStepWarnings(StatusByContext(before, ignoredRule),
                                    statusList[Len(statusList)], ignoredRule)

\* combinedStatusToStatusWarnings without the message that ends the function
combinedStatusToStatusWarningsSilent(statusList, ignoredRule) ==
    StatusByContextWarnings(statusList, ignoredRule)

\* every message combinedStatusToStatus passes to core.warning; the last one
\* carries JSON.stringify(statusByContext)
combinedStatusToStatusWarnings(statusList, ignoredRule) ==
    LET statusByContext == StatusByContext(statusList, ignoredRule)
    IN StatusByContextWarnings(statusList, ignoredRule)
       \cup IF ReduceStatuses(statusByContext) = Unknown
            THEN {<<"unknown statuses", statusByContext>>}
            ELSE {}

-----------------------------------------------------------------------------
(* checkChecks *)

\* the key a check run is stored under: its name in build "main",
\* `${name}|${check_suite?.id}` in build "suite"
CheckKey(build, checkStatus) ==
    IF build = "suite"
    THEN <<checkStatus.name, checkStatus.suite>>
    ELSE <<checkStatus.name>>

\* CheckStep without the comparison of times: the last report of a key wins
CheckStepLastWins(build, statusByName, checkStatus, ignoredRule) ==
    IF shouldIgnoreCheck(ignoredRule, checkStatus.name)
    THEN statusByName
    ELSE LET ts == Coalesce(checkStatus.completed_at, checkStatus.started_at)
         IN IF ts = None
            THEN statusByName
            ELSE Put(statusByName, CheckKey(build, checkStatus),
                     <<DateGetTime(ts[1]),
                       checkToStatus(Coalesce(checkStatus.conclusion,
                                              Some(checkStatus.status))[1])>>)

\* CheckStep with <= for <: a report as late as the stored one replaces it
CheckStepTieReplaces(build, statusByName, checkStatus, ignoredRule) ==
    IF shouldIgnoreCheck(ignoredRule, checkStatus.name)
    THEN statusByName
    ELSE LET ts == Coalesce(checkStatus.completed_at, checkStatus.started_at)
         IN IF ts = None
            THEN statusByName
            ELSE LET unixTs == DateGetTime(ts[1])
                     statusName == CheckKey(build, checkStatus)
                 IN IF statusName \notin DOMAIN statusByName
                       \/ statusByName[statusName][1] <= unixTs
                    THEN Put(statusByName, statusName,
                             <<unixTs,
                               checkToStatus(Coalesce(checkStatus.conclusion,
                                                      Some(checkStatus.status))[1])>>)
                    ELSE statusByName

\* CheckStep with a check run without a time stored under the time 0
CheckStepKeepsUntimed(build, statusByName, checkStatus, ignoredRule) ==
    IF shouldIgnoreCheck(ignoredRule, checkStatus.name)
    THEN statusByName
    ELSE LET ts == Coalesce(checkStatus.completed_at, checkStatus.started_at)
             unixTs == IF ts = None THEN 0 ELSE DateGetTime(ts[1])
             statusName == CheckKey(build, checkStatus)
         IN IF statusName \notin DOMAIN statusByName
               \/ statusByName[statusName][1] < unixTs
            THEN Put(statusByName, statusName,
                     <<unixTs,
                       checkToStatus(Coalesce(checkStatus.conclusion,
                                              Some(checkStatus.status))[1])>>)
            ELSE statusByName

\* CheckStep ordering by started_at ?? completed_at
CheckStepStartFirst(build, statusByName, checkStatus, ignoredRule) ==
    IF shouldIgnoreCheck(ignoredRule, checkStatus.name)
    THEN statusByName
    ELSE LET ts == Coalesce(checkStatus.started_at, checkStatus.completed_at)
         IN IF ts = None
            THEN statusByName
            ELSE LET unixTs == DateGetTime(ts[1])
                     statusName == CheckKey(build, checkStatus)
                 IN IF statusName \notin DOMAIN statusByName
                       \/ statusByName[statusName][1] < unixTs
                    THEN Put(statusByName, statusName,
                             <<unixTs,
                               checkToStatus(Coalesce(checkStatus.conclusion,
                                                      Some(checkStatus.status))[1])>>)
                    ELSE statusByName

\* the body of check_runs.forEach: statusByName after one more check run
CheckStep(build, statusByName, checkStatus, ignoredRule) ==
    IF shouldIgnoreCheck(ignoredRule, checkStatus.name)
    THEN statusByName
    ELSE LET ts == Coalesce(checkStatus.completed_at, checkStatus.started_at)
         IN IF ts = None
            THEN statusByName
            ELSE LET unixTs == DateGetTime(ts[1])
                     statusName == CheckKey(build, checkStatus)
                 IN IF statusName \notin DOMAIN statusByName
                       \/ statusByName[statusName][1] < unixTs
                    THEN Put(statusByName, statusName,
                             <<unixTs,
                               checkToStatus(Coalesce(checkStatus.conclusion,
                                                      Some(checkStatus.status))[1])>>)
                    ELSE statusByName

RECURSIVE StatusByName(_, _, _)
StatusByName(build, checkRuns, ignoredRule) ==
    IF checkRuns = <<>>
    THEN <<>>
    ELSE CheckStep(build,
                   StatusByName(build, SubSeq(checkRuns, 1, Len(checkRuns) - 1),
                                ignoredRule),
                   checkRuns[Len(checkRuns)], ignoredRule)

\* ReduceChecks with the Pending rule ahead of the Failure rule
ReduceChecksPendingFirst(statusByName) ==
    LET statusValues == StatusValues(statusByName)
    IN IF Pending \in statusValues \/ DOMAIN statusByName = {}
       THEN Pending
       ELSE IF Failure \in statusValues \/ Canceled \in statusValues
       THEN Failure
       ELSE IF \A val \in statusValues : val = Success \/ val = Skipped
       THEN Success
       ELSE Unknown

\* the precedence rules that end checkChecks in build "main"
ReduceChecks(statusByName) ==
    LET statusValues == StatusValues(statusByName)
    IN IF Failure \in statusValues \/ Canceled \in statusValues
       THEN Failure
       ELSE IF Pending \in statusValues \/ DOMAIN statusByName = {}
       THEN Pending
       ELSE IF \A val \in statusValues : val = Success \/ val = Skipped
       THEN Success
       ELSE Unknown

\* the precedence rules that end checkChecks in build "suite"
ReduceChecksSuite(statusByName) ==
    LET statusValues == StatusValues(statusByName)
    IN IF Failure \in statusValues \/ Canceled \in statusValues
       THEN Failure
       ELSE IF Pending \in statusValues
       THEN Pending
       ELSE IF \A val \in statusValues :
                  val = Success \/ val = Skipped \/ DOMAIN statusByName = {}
       THEN Success
       ELSE Unknown

\* the precedence rules of the build
ReduceChecksOf(build, statusByName) ==
    IF build = "suite"
    THEN ReduceChecksSuite(statusByName)
    ELSE ReduceChecks(statusByName)

\* what checkChecks resolves with, given the check runs it fetched
checkChecks(build, checkRuns, ignoredRule) ==
    ReduceChecksOf(build, StatusByName(build, checkRuns, ignoredRule))

\* what checkStatuses resolves with, given the statuses it fetched
checkStatuses(statusList, ignoredRule) ==
    combinedStatusToStatus(statusList, ignoredRule)

\* the warnings of one pass of the forEach body of checkChecks
CheckStepWarnings(build, statusByName, checkStatus, ignoredRule) ==
    IF shouldIgnoreCheck(ignoredRule, checkStatus.name)
    THEN {}
    ELSE LET ts == Coalesce(checkStatus.completed_at, checkStatus.started_at)
             statusName == CheckKey(build, checkStatus)
         IN IF ts = None
            THEN {<<"no completed_at or started_at for check", checkStatus.name>>}
            ELSE IF statusName \notin DOMAIN statusByName
                    \/ statusByName[statusName][1] < DateGetTime(ts[1])
            THEN checkToStatusWarnings(Coalesce(checkStatus.conclusion,
                                                Some(checkStatus.status))[1])
            ELSE {}

RECURSIVE StatusByNameWarnings(_, _, _)
StatusByNameWarnings(build, checkRuns, ignoredRule) ==
    IF checkRuns = <<>>
    THEN {}
    ELSE LET before == SubSeq(checkRuns, 1, Len(checkRuns) - 1)
         IN StatusByNameWarnings(build, before, ignoredRule)
            \cup CheckStepWarnings(build, StatusByName(build, before, ignoredRule),
                                   checkRuns[Len(checkRuns)], ignoredRule)

\* every message checkChecks passes to core.warning; the last one carries
\* JSON.stringify(statusByName)
checkChecksWarnings(build, checkRuns, ignoredRule) ==
    LET statusByName == StatusByName(build, checkRuns, ignoredRule)
    IN StatusByNameWarnings(build, checkRuns, ignoredRule)
       \cup IF ReduceChecksOf(build, statusByName) = Unknown
            THEN {<<"Unknown checks", statusByName>>}
            ELSE {}

-----------------------------------------------------------------------------
(* parseInt(string, 10) on an input of the action.  core.getInput has       *)
(* trimmed the string, so it does not start with white space.               *)

Digits == <<"0", "1", "2", "3", "4", "5", "6", "7", "8", "9">>

IsDigit(c) == \E d \in DOMAIN Digits : Digits[d] = c

DigitValue(c) == (CHOOSE d \in DOMAIN Digits : Digits[d] = c) - 1

\* the decimal numeral of a number below ten
Numeral(n) == <<Digits[n + 1]>>

NaN == None

\* the longest prefix of s made of digits
LeadingDigits(s) ==
    LET n == CHOOSE k \in 0..Len(s) :
                 /\ \A i \in 1..k : IsDigit(s[i])
                 /\ k = Len(s) \/ ~IsDigit(s[k + 1])
    IN SubSeq(s, 1, n)

RECURSIVE Decimal(_)
Decimal(ds) ==
    IF ds = <<>>
    THEN 0
    ELSE 10 * Decimal(SubSeq(ds, 1, Len(ds) - 1)) + DigitValue(ds[Len(ds)])

\* an optional sign, then the longest run of digits; what follows the digits
\* is not looked at; NaN when there is no digit there
parseInt(s) ==
    LET signed == s # <<>> /\ Head(s) \in {"-", "+"}
        ds == LeadingDigits(IF signed THEN Tail(s) ELSE s)
    IN IF ds = <<>>
       THEN NaN
       ELSE IF signed /\ Head(s) = "-"
       THEN Some(0 - Decimal(ds))
       ELSE Some(Decimal(ds))

\* core.getInput(name) || dflt
OrDefault(s, dflt) == IF s = <<>> THEN dflt ELSE s

-----------------------------------------------------------------------------
(* Inputs *)

Variants == {"main", "suite"}

A == <<"a">>
AB == <<"a", "b">>

\* ignore rules: none; the list "a" (ignores "a"); the regular expression /b/
\* (ignores "ab")
NoRule == <<>>
ListA == <<"a">>
RegexB == <<"/", "b", "/">>

\* all sequences over S of length at most n
SeqUpTo(S, n) == UNION {[1..k -> S] : k \in 0..n}

\* feeds of the poll loop.  Check runs: a stale failure and a later success
\* of check "ab", check "a" still in progress, check "a" skipped in another
\* suite.  Commit statuses: a stale failure and a later success of context
\* "ab", context "a" pending, context "a" in state error (not classified).
PollCheckRuns ==
    { CheckRun(AB, Some(1), Some(1), Some(1), Some("failure"), "completed"),
      CheckRun(AB, Some(1), Some(2), Some(2), Some("success"), "completed"),
      CheckRun(A, Some(1), None, Some(1), None, "in_progress"),
      CheckRun(A, Some(2), Some(1), Some(1), Some("skipped"), "completed") }

PollStatuses ==
    { SimpleStatus(AB, "failure", 1),
      SimpleStatus(AB, "success", 2),
      SimpleStatus(A, "pending", 1),
      SimpleStatus(A, "error", 2) }

PollCheckFeeds == SeqUpTo(PollCheckRuns, MaxFeedLen)
PollStatusFeeds == SeqUpTo(PollStatuses, MaxFeedLen)
PollRules == {NoRule, RegexB}

\* what run() reads before the loop: whether the token input, the owner, the
\* repository and a ref are there, and the two inputs parseInt is applied to
Configs ==
    [token : BOOLEAN, owner : BOOLEAN, repository : BOOLEAN, ref : BOOLEAN,
     check_interval : {<<"0">>, <<"x">>},
     max_attempts : {<<"-", "1">>, <<"0">>, <<"1">>, Numeral(MaxAttempts), <<"x">>}]

\* 1000 * parseInt(core.getInput('check_interval') || '10', 10)
checkIntervalMs(cfg) ==
    LET n == parseInt(OrDefault(cfg.check_interval, <<"1", "0">>))
    IN IF n = NaN THEN NaN ELSE Some(1000 * n[1])

\* parseInt(core.getInput('max_attempts') || '1000', 10)
maxAttemptsOf(cfg) ==
    parseInt(OrDefault(cfg.max_attempts, <<"1", "0", "0", "0">>))

\* the statements of run() ahead of the loop that throw: getOctokit without a
\* token, the three tests of the environment, the two isNaN tests
ConfigError(cfg) ==
    \/ ~cfg.token
    \/ ~cfg.owner
    \/ ~cfg.repository
    \/ ~cfg.ref
    \/ checkIntervalMs(cfg) = NaN
    \/ maxAttemptsOf(cfg) = NaN

-----------------------------------------------------------------------------
(* run() *)

Init ==
    /\ pc = "start"
    /\ variant \in Variants
    /\ config \in Configs
    /\ ignored \in PollRules
    /\ maxAttempts = 0
    /\ attempt = 0
    /\ checksP = "idle"
    /\ statusesP = "idle"
    /\ checkFeed = <<>>
    /\ statusFeed = <<>>
    /\ checks = "none"
    /\ statuses = "none"
    /\ output = None
    /\ outputs = 0
    /\ failed = FALSE
    /\ reason = "none"
    /\ fetches = [checks |-> 0, statuses |-> 0]
    /\ joined = 0
    /\ retries = 0
    /\ sleeps = 0
    /\ args = <<>>
    /\ returned = "none"
    /\ warnings = {}

\* EnterLoop with the loop test attempt <= maxAttempts
EnterLoopOffByOne(k, m) ==
    /\ attempt' = k
    /\ checkFeed' = <<>>
    /\ statusFeed' = <<>>
    /\ checks' = "none"
    /\ statuses' = "none"
    /\ IF k <= m
       THEN /\ pc' = "fetching"
            /\ checksP' = "pending"
            /\ statusesP' = "pending"
            /\ fetches' = [checks |-> fetches.checks + 1,
                           statuses |-> fetches.statuses + 1]
            /\ warnings' = {}
            /\ UNCHANGED <<output, outputs, reason>>
       ELSE /\ pc' = "done"
            /\ checksP' = "idle"
            /\ statusesP' = "idle"
            /\ reason' = "timeout"
            /\ warnings' = {<<"timed out waiting for checks to complete">>}
            /\ output' = Some(FALSE)
            /\ outputs' = outputs + 1
            /\ UNCHANGED fetches

\* EnterLoop with the two requests one after the other: the commit statuses
\* are not asked for while the check runs are awaited
EnterLoopChecksFirst(k, m) ==
    /\ attempt' = k
    /\ checkFeed' = <<>>
    /\ statusFeed' = <<>>
    /\ checks' = "none"
    /\ statuses' = "none"
    /\ IF k < m
       THEN /\ pc' = "fetching"
            /\ checksP' = "pending"
            /\ statusesP' = "idle"
            /\ fetches' = [checks |-> fetches.checks + 1,
                           statuses |-> fetches.statuses]
            /\ warnings' = {}
            /\ UNCHANGED <<output, outputs, reason>>
       ELSE /\ pc' = "done"
            /\ checksP' = "idle"
            /\ statusesP' = "idle"
            /\ reason' = "timeout"
            /\ warnings' = {<<"timed out waiting for checks to complete">>}
            /\ output' = Some(FALSE)
            /\ outputs' = outputs + 1
            /\ UNCHANGED fetches

\* EnterLoop with the responses and the aggregates of the attempt before kept
EnterLoopKeepsState(k, m) ==
    /\ attempt' = k
    /\ UNCHANGED <<checkFeed, statusFeed, checks, statuses>>
    /\ IF k < m
       THEN /\ pc' = "fetching"
            /\ checksP' = "pending"
            /\ statusesP' = "pending"
            /\ fetches' = [checks |-> fetches.checks + 1,
                           statuses |-> fetches.statuses + 1]
            /\ warnings' = {}
            /\ UNCHANGED <<output, outputs, reason>>
       ELSE /\ pc' = "done"
            /\ checksP' = "idle"
            /\ statusesP' = "idle"
            /\ reason' = "timeout"
            /\ warnings' = {<<"timed out waiting for checks to complete">>}
            /\ output' = Some(FALSE)
            /\ outputs' = outputs + 1
            /\ UNCHANGED fetches

\* the head of the for loop with attempt = k: either both requests of the
\* attempt are issued (Promise.all of checkChecks and checkStatuses, each
\* suspended at its await), or the loop is over and run() times out
EnterLoop(k, m) ==
    /\ attempt' = k
    /\ checkFeed' = <<>>
    /\ statusFeed' = <<>>
    /\ checks' = "none"
    /\ statuses' = "none"
    /\ IF k < m
       THEN /\ pc' = "fetching"
            /\ checksP' = "pending"
            /\ statusesP' = "pending"
            /\ fetches' = [checks |-> fetches.checks + 1,
                           statuses |-> fetches.statuses + 1]
            /\ warnings' = {}
            /\ UNCHANGED <<output, outputs, reason>>
       ELSE /\ pc' = "done"
            /\ checksP' = "idle"
            /\ statusesP' = "idle"
            /\ reason' = "timeout"
            /\ warnings' = {<<"timed out waiting for checks to complete">>}
            /\ output' = Some(FALSE)
            /\ outputs' = outputs + 1
            /\ UNCHANGED fetches

\* Start with a loop that tests after its body: one attempt whatever maxAttempts
StartAtLeastOnce ==
    /\ pc = "start"
    /\ IF ConfigError(config)
       THEN /\ pc' = "done"
            /\ failed' = TRUE
            /\ reason' = "error"
            /\ UNCHANGED <<maxAttempts, attempt, checksP, statusesP, checkFeed,
                           statusFeed, checks, statuses, output, outputs,
                           fetches, warnings>>
       ELSE /\ maxAttempts' = maxAttemptsOf(config)[1]
            /\ EnterLoop(0, IF maxAttemptsOf(config)[1] < 1
                            THEN 1
                            ELSE maxAttemptsOf(config)[1])
            /\ UNCHANGED failed
    /\ UNCHANGED <<args, returned>>
    /\ UNCHANGED <<variant, config, ignored, joined, retries, sleeps>>

\* run() from its first line to its first await
Start ==
    /\ pc = "start"
    /\ IF ConfigError(config)
       THEN /\ pc' = "done"
            /\ failed' = TRUE
            /\ reason' = "error"
            /\ UNCHANGED <<maxAttempts, attempt, checksP, statusesP, checkFeed,
                           statusFeed, checks, statuses, output, outputs,
                           fetches, warnings>>
       ELSE /\ maxAttempts' = maxAttemptsOf(config)[1]
            /\ EnterLoop(0, maxAttemptsOf(config)[1])
            /\ UNCHANGED failed
    /\ UNCHANGED <<args, returned>>
    /\ UNCHANGED <<variant, config, ignored, joined, retries, sleeps>>

\* listForRef answers: checkChecks runs to its end
ChecksResolve ==
    /\ checksP = "pending"
    /\ \E feed \in PollCheckFeeds :
          /\ checkFeed' = feed
          /\ checks' = checkChecks(variant, feed, ignored)
          /\ warnings' = warnings \cup checkChecksWarnings(variant, feed, ignored)
    /\ checksP' = "resolved"
    /\ UNCHANGED <<args, returned>>
    /\ UNCHANGED <<pc, variant, config, ignored, maxAttempts, attempt, statusesP,
                   statusFeed, statuses, output, outputs, failed, reason,
                   fetches, joined, retries, sleeps>>

\* getCombinedStatusForRef answers: checkStatuses runs to its end
StatusesResolve ==
    /\ statusesP = "pending"
    /\ \E feed \in PollStatusFeeds :
          /\ statusFeed' = feed
          /\ statuses' = checkStatuses(feed, ignored)
          /\ warnings' = warnings \cup combinedStatusToStatusWarnings(feed, ignored)
    /\ statusesP' = "resolved"
    /\ UNCHANGED <<args, returned>>
    /\ UNCHANGED <<pc, variant, config, ignored, maxAttempts, attempt, checksP,
                   checkFeed, checks, output, outputs, failed, reason,
                   fetches, joined, retries, sleeps>>

\* Catch with a rejection that is not reported: run() stays where it is
CatchSwallowed == UNCHANGED <<pc, failed, reason>>

\* a rejected request rejects Promise.all, unless it has been rejected before:
\* the await in run() throws and the catch block calls core.setFailed
Catch ==
    IF pc = "fetching"
    THEN pc' = "done" /\ failed' = TRUE /\ reason' = "error"
    ELSE UNCHANGED <<pc, failed, reason>>

ChecksReject ==
    /\ checksP = "pending"
    /\ checksP' = "rejected"
    /\ Catch
    /\ UNCHANGED <<args, returned, warnings>>
    /\ UNCHANGED <<variant, config, ignored, maxAttempts, attempt, statusesP, checkFeed,
                   statusFeed, checks, statuses, output, outputs, fetches,
                   joined, retries, sleeps>>

StatusesReject ==
    /\ statusesP = "pending"
    /\ statusesP' = "rejected"
    /\ Catch
    /\ UNCHANGED <<args, returned, warnings>>
    /\ UNCHANGED <<variant, config, ignored, maxAttempts, attempt, checksP, checkFeed,
                   statusFeed, checks, statuses, output, outputs, fetches,
                   joined, retries, sleeps>>

\* Verdict without the exit on Failure: only success ends the loop early
VerdictNoFailureExit(checksStatus, statusesStatus) ==
    IF checksStatus = Success /\ statusesStatus = Success
    THEN "success"
    ELSE "retry"

\* Verdict comparing with the capitalised values of the other Status enum
VerdictCapitalised(checksStatus, statusesStatus) ==
    IF checksStatus = "Success" /\ statusesStatus = "Success"
    THEN "success"
    ELSE IF checksStatus = "Failure" \/ statusesStatus = "Failure"
    THEN "failure"
    ELSE "retry"

\* Verdict with || for && in the success test
VerdictEitherSuccess(checksStatus, statusesStatus) ==
    IF checksStatus = Success \/ statusesStatus = Success
    THEN "success"
    ELSE IF checksStatus = Failure \/ statusesStatus = Failure
    THEN "failure"
    ELSE "retry"

\* Verdict with an Unknown aggregate treated as a failure
VerdictUnknownFails(checksStatus, statusesStatus) ==
    IF checksStatus = Success /\ statusesStatus = Success
    THEN "success"
    ELSE IF checksStatus \in {Failure, Unknown} \/ statusesStatus \in {Failure, Unknown}
    THEN "failure"
    ELSE "retry"

\* what the attempt decides from the two aggregates
Verdict(checksStatus, statusesStatus) ==
    IF checksStatus = Success /\ statusesStatus = Success
    THEN "success"
    ELSE IF checksStatus = Failure \/ statusesStatus = Failure
    THEN "failure"
    ELSE "retry"

\* Join without the two return statements: the output is set and the loop
\* goes on to the sleep
JoinNoReturn ==
    /\ pc = "fetching"
    /\ checksP = "resolved"
    /\ statusesP = "resolved"
    /\ joined' = joined + 1
    /\ pc' = "sleeping"
    /\ sleeps' = sleeps + 1
    /\ LET verdict == Verdict(checks, statuses)
       IN CASE verdict = "success" ->
                 /\ output' = Some(TRUE)
                 /\ outputs' = outputs + 1
                 /\ reason' = "success"
                 /\ UNCHANGED retries
            [] verdict = "failure" ->
                 /\ output' = Some(FALSE)
                 /\ outputs' = outputs + 1
                 /\ reason' = "failure"
                 /\ UNCHANGED retries
            [] OTHER ->
                 /\ retries' = retries + 1
                 /\ UNCHANGED <<output, outputs, reason>>
    /\ UNCHANGED <<args, returned, warnings>>
    /\ UNCHANGED <<variant, config, ignored, maxAttempts, attempt, checksP, statusesP,
                   checkFeed, statusFeed, checks, statuses, failed, fetches>>

\* Promise.all resolved: run() goes on to the end of the loop body
Join ==
    /\ pc = "fetching"
    /\ checksP = "resolved"
    /\ statusesP = "resolved"
    /\ joined' = joined + 1
    /\ LET verdict == Verdict(checks, statuses)
       IN CASE verdict = "success" ->
                 /\ output' = Some(TRUE)
                 /\ outputs' = outputs + 1
                 /\ pc' = "done"
                 /\ reason' = "success"
                 /\ UNCHANGED <<retries, sleeps>>
            [] verdict = "failure" ->
                 /\ output' = Some(FALSE)
                 /\ outputs' = outputs + 1
                 /\ pc' = "done"
                 /\ reason' = "failure"
                 /\ UNCHANGED <<retries, sleeps>>
            [] OTHER ->
                 /\ pc' = "sleeping"
                 /\ sleeps' = sleeps + 1
                 /\ retries' = retries + 1
                 /\ UNCHANGED <<output, outputs, reason>>
    /\ UNCHANGED <<args, returned, warnings>>
    /\ UNCHANGED <<variant, config, ignored, maxAttempts, attempt, checksP, statusesP,
                   checkFeed, statusFeed, checks, statuses, failed, fetches>>

\* Wake without attempt++: the loop head is entered with the same attempt
WakeSameAttempt ==
    /\ pc = "sleeping"
    /\ EnterLoop(attempt, maxAttempts)
    /\ UNCHANGED <<args, returned>>
    /\ UNCHANGED <<variant, config, ignored, maxAttempts, failed, joined, retries,
                   sleeps>>

\* the timer of sleep() fires: attempt++ and the loop head again
Wake ==
    /\ pc = "sleeping"
    /\ EnterLoop(attempt + 1, maxAttempts)
    /\ UNCHANGED <<args, returned>>
    /\ UNCHANGED <<variant, config, ignored, maxAttempts, failed, joined, retries,
                   sleeps>>

Next ==
    \/ Start
    \/ ChecksResolve
    \/ StatusesResolve
    \/ ChecksReject
    \/ StatusesReject
    \/ Join
    \/ Wake

Spec == Init /\ [][Next]_vars

\* run() with every request answered and every timer fired in the end: the
\* two requests and the timer of sleep() are the only things run() awaits, and
\* the steps of run() itself (Start, Join) are taken as soon as they can be
FairSpec ==
    /\ Spec
    /\ WF_vars(Start)
    /\ WF_vars(ChecksResolve \/ ChecksReject)
    /\ WF_vars(StatusesResolve \/ StatusesReject)
    /\ WF_vars(Join)
    /\ WF_vars(Wake)

-----------------------------------------------------------------------------
(* The aggregation of one source on its own, over wider feeds *)

AggNames == {A, AB}
AggRules == {NoRule, ListA, RegexB}
Times == 1..MaxTime

\* (conclusion, status) of a check run: finished with each kind of conclusion
\* ("stale" is one the classifier does not know), or still running
CheckOutcomes ==
    { <<Some("success"), "completed">>, <<Some("failure"), "completed">>,
      <<Some("cancelled"), "completed">>, <<Some("skipped"), "completed">>,
      <<Some("stale"), "completed">>, <<None, "in_progress">> }

AggCheckRuns ==
    { CheckRun(n, Some(1), IF o[1] = None THEN None ELSE Some(t), Some(t), o[1], o[2]) :
        n \in AggNames, t \in Times, o \in CheckOutcomes }
    \cup { CheckRun(n, Some(1), None, None, Some("failure"), "completed") :
             n \in AggNames }

AggStatuses ==
    { SimpleStatus(n, st, t) :
        n \in AggNames, st \in {"success", "failure", "pending", "error"},
        t \in Times }

AggCheckFeeds == SeqUpTo(AggCheckRuns, MaxFeedLen)
AggStatusFeeds == SeqUpTo(AggStatuses, MaxFeedLen)

\* every input left to its default in a workflow run of GitHub
DefaultConfig ==
    [token |-> TRUE, owner |-> TRUE, repository |-> TRUE, ref |-> TRUE,
     check_interval |-> <<>>, max_attempts |-> <<>>]

InitAgg ==
    /\ pc = "eval"
    /\ variant \in Variants
    /\ config = DefaultConfig
    /\ ignored \in AggRules
    /\ maxAttempts = 0
    /\ attempt = 0
    /\ checksP = "pending"
    /\ statusesP = "pending"
    /\ checkFeed = <<>>
    /\ statusFeed = <<>>
    /\ checks = "none"
    /\ statuses = "none"
    /\ output = None
    /\ outputs = 0
    /\ failed = FALSE
    /\ reason = "none"
    /\ fetches = [checks |-> 0, statuses |-> 0]
    /\ joined = 0
    /\ retries = 0
    /\ sleeps = 0
    /\ args = <<>>
    /\ returned = "none"
    /\ warnings = {}

\* checkChecks applied to one response of listForRef
EvalChecks ==
    /\ pc = "eval"
    /\ \E feed \in AggCheckFeeds :
          /\ checkFeed' = feed
          /\ checks' = checkChecks(variant, feed, ignored)
          /\ warnings' = warnings \cup checkChecksWarnings(variant, feed, ignored)
    /\ checksP' = "resolved"
    /\ pc' = "evaluated"
    /\ UNCHANGED <<args, returned>>
    /\ UNCHANGED <<variant, config, ignored, maxAttempts, attempt, statusesP,
                   statusFeed, statuses, output, outputs, failed, reason,
                   fetches, joined, retries, sleeps>>

\* checkStatuses applied to one response of getCombinedStatusForRef
EvalStatuses ==
    /\ pc = "eval"
    /\ \E feed \in AggStatusFeeds :
          /\ statusFeed' = feed
          /\ statuses' = checkStatuses(feed, ignored)
          /\ warnings' = warnings \cup combinedStatusToStatusWarnings(feed, ignored)
    /\ statusesP' = "resolved"
    /\ pc' = "evaluated"
    /\ UNCHANGED <<args, returned>>
    /\ UNCHANGED <<variant, config, ignored, maxAttempts, attempt, checksP,
                   checkFeed, checks, output, outputs, failed, reason,
                   fetches, joined, retries, sleeps>>

NextAgg ==
    \/ EvalChecks
    \/ EvalStatuses

SpecAgg == InitAgg /\ [][NextAgg]_vars

-----------------------------------------------------------------------------
(* Check runs of one name in two check suites (a re-run of the check) *)

SuiteIds == {1, 2}

SuiteOutcomes ==
    { <<Some("success"), "completed">>, <<Some("failure"), "completed">>,
      <<None, "in_progress">> }

SuiteCheckRuns ==
    { CheckRun(A, Some(s), IF o[1] = None THEN None ELSE Some(t), Some(t), o[1], o[2]) :
        s \in SuiteIds, t \in Times, o \in SuiteOutcomes }

SuiteCheckFeeds == SeqUpTo(SuiteCheckRuns, MaxFeedLen)

\* checkChecks applied to one response of listForRef with re-run checks
EvalSuiteChecks ==
    /\ pc = "eval"
    /\ \E feed \in SuiteCheckFeeds :
          /\ checkFeed' = feed
          /\ checks' = checkChecks(variant, feed, ignored)
          /\ warnings' = warnings \cup checkChecksWarnings(variant, feed, ignored)
    /\ checksP' = "resolved"
    /\ pc' = "evaluated"
    /\ UNCHANGED <<args, returned>>
    /\ UNCHANGED <<variant, config, ignored, maxAttempts, attempt, statusesP,
                   statusFeed, statuses, output, outputs, failed, reason,
                   fetches, joined, retries, sleeps>>

NextSuite ==
    \/ EvalSuiteChecks
    \/ EvalStatuses

SpecSuite == InitAgg /\ [][NextSuite]_vars

-----------------------------------------------------------------------------
(* run() up to its first await, over every input string *)

InputChars == {"0", "1", "-", "x"}
InputStrings == SeqUpTo(InputChars, MaxInputLen)

StartConfigs ==
    [token : BOOLEAN, owner : BOOLEAN, repository : BOOLEAN, ref : BOOLEAN,
     check_interval : InputStrings, max_attempts : InputStrings]

InitStart ==
    /\ pc = "start"
    /\ variant \in Variants
    /\ config \in StartConfigs
    /\ ignored = NoRule
    /\ maxAttempts = 0
    /\ attempt = 0
    /\ checksP = "idle"
    /\ statusesP = "idle"
    /\ checkFeed = <<>>
    /\ statusFeed = <<>>
    /\ checks = "none"
    /\ statuses = "none"
    /\ output = None
    /\ outputs = 0
    /\ failed = FALSE
    /\ reason = "none"
    /\ fetches = [checks |-> 0, statuses |-> 0]
    /\ joined = 0
    /\ retries = 0
    /\ sleeps = 0
    /\ args = <<>>
    /\ returned = "none"
    /\ warnings = {}

NextStart == Start

SpecStart == InitStart /\ [][NextStart]_vars

-----------------------------------------------------------------------------
(* shouldIgnoreCheck on its own, over every rule string *)

RuleChars == {"a", ",", "/", " "}
IgnoreRules == SeqUpTo(RuleChars, MaxRuleLen)

IgnoreNames ==
    { <<"a">>, <<"a", "a">>, <<" ", "a">>, <<"a", " ">>, <<"/">>, <<"b">> }

InitIgnore ==
    /\ pc = "call"
    /\ variant \in Variants
    /\ config = DefaultConfig
    /\ ignored \in IgnoreRules
    /\ maxAttempts = 0
    /\ attempt = 0
    /\ checksP = "idle"
    /\ statusesP = "idle"
    /\ checkFeed = <<>>
    /\ statusFeed = <<>>
    /\ checks = "none"
    /\ statuses = "none"
    /\ output = None
    /\ outputs = 0
    /\ failed = FALSE
    /\ reason = "none"
    /\ fetches = [checks |-> 0, statuses |-> 0]
    /\ joined = 0
    /\ retries = 0
    /\ sleeps = 0
    /\ args = <<>>
    /\ returned = "none"
    /\ warnings = {}

\* one call shouldIgnoreCheck(ignored, checkName)
CallShouldIgnoreCheck ==
    /\ pc = "call"
    /\ \E checkName \in IgnoreNames :
          /\ args' = <<ignored, checkName>>
          /\ returned' = shouldIgnoreCheck(ignored, checkName)
    /\ pc' = "returned"
    /\ UNCHANGED <<variant, config, ignored, maxAttempts, attempt, checksP,
                   statusesP, checkFeed, statusFeed, checks, statuses, output,
                   outputs, failed, reason, fetches, joined, retries, sleeps,
                   warnings>>

NextIgnore == CallShouldIgnoreCheck

SpecIgnore == InitIgnore /\ [][NextIgnore]_vars

-----------------------------------------------------------------------------
(* The two classifiers on their own, over raw strings *)

\* the conclusions and statuses of a check run and the states of a commit
\* status that GitHub documents, and strings it does not
RawStrings ==
    { "success", "neutral", "failure", "timed_out", "pending",
      "action_required", "queued", "in_progress", "skipped", "canceled",
      "cancelled", "error", "stale", "startup_failure", "completed",
      "in_progres", "Success", "" }

InitClassify ==
    /\ pc = "call"
    /\ variant \in Variants
    /\ config = DefaultConfig
    /\ ignored = NoRule
    /\ maxAttempts = 0
    /\ attempt = 0
    /\ checksP = "idle"
    /\ statusesP = "idle"
    /\ checkFeed = <<>>
    /\ statusFeed = <<>>
    /\ checks = "none"
    /\ statuses = "none"
    /\ output = None
    /\ outputs = 0
    /\ failed = FALSE
    /\ reason = "none"
    /\ fetches = [checks |-> 0, statuses |-> 0]
    /\ joined = 0
    /\ retries = 0
    /\ sleeps = 0
    /\ args = <<>>
    /\ returned = "none"
    /\ warnings = {}

\* checkToStatus(checkStatus.conclusion ?? checkStatus.status)
CallCheckToStatus ==
    /\ pc = "call"
    /\ \E conclusion \in {None} \cup {Some(r) : r \in RawStrings},
          status \in RawStrings :
          /\ args' = <<"checkToStatus", conclusion, status>>
          /\ returned' = checkToStatus(Coalesce(conclusion, Some(status))[1])
          /\ warnings' = checkToStatusWarnings(Coalesce(conclusion, Some(status))[1])
    /\ pc' = "returned"
    /\ UNCHANGED <<variant, config, ignored, maxAttempts, attempt, checksP,
                   statusesP, checkFeed, statusFeed, checks, statuses, output,
                   outputs, failed, reason, fetches, joined, retries, sleeps>>

\* stringToStatus(simpleStatus.state)
CallStringToStatus ==
    /\ pc = "call"
    /\ \E state \in RawStrings :
          /\ args' = <<"stringToStatus", state>>
          /\ returned' = stringToStatus(state)
          /\ warnings' = stringToStatusWarnings(state)
    /\ pc' = "returned"
    /\ UNCHANGED <<variant, config, ignored, maxAttempts, attempt, checksP,
                   statusesP, checkFeed, statusFeed, checks, statuses, output,
                   outputs, failed, reason, fetches, joined, retries, sleeps>>

NextClassify ==
    \/ CallCheckToStatus
    \/ CallStringToStatus

SpecClassify == InitClassify /\ [][NextClassify]_vars

-----------------------------------------------------------------------------
(* checkChecks on check runs of one check with every shape of the two      *)
(* times: started and completed later, started only, neither               *)

TimedCheckRuns ==
    { CheckRun(A, Some(1), Some(t[2]), Some(t[1]), Some(o), "completed") :
        t \in {p \in Times \X Times : p[1] <= p[2]},
        o \in {"success", "failure"} }
    \cup { CheckRun(A, Some(1), None, Some(s), None, "in_progress") : s \in Times }
    \cup { CheckRun(A, Some(1), None, None, Some("failure"), "completed"),
           CheckRun(A, Some(1), None, None, None, "queued") }

TimedCheckFeeds == SeqUpTo(TimedCheckRuns, MaxFeedLen)

InitTimes ==
    /\ pc = "eval"
    /\ variant \in Variants
    /\ config = DefaultConfig
    /\ ignored = NoRule
    /\ maxAttempts = 0
    /\ attempt = 0
    /\ checksP = "pending"
    /\ statusesP = "pending"
    /\ checkFeed = <<>>
    /\ statusFeed = <<>>
    /\ checks = "none"
    /\ statuses = "none"
    /\ output = None
    /\ outputs = 0
    /\ failed = FALSE
    /\ reason = "none"
    /\ fetches = [checks |-> 0, statuses |-> 0]
    /\ joined = 0
    /\ retries = 0
    /\ sleeps = 0
    /\ args = <<>>
    /\ returned = "none"
    /\ warnings = {}

\* checkChecks applied to one response of listForRef
EvalTimedChecks ==
    /\ pc = "eval"
    /\ \E feed \in TimedCheckFeeds :
          /\ checkFeed' = feed
          /\ checks' = checkChecks(variant, feed, ignored)
          /\ warnings' = warnings \cup checkChecksWarnings(variant, feed, ignored)
    /\ checksP' = "resolved"
    /\ pc' = "evaluated"
    /\ UNCHANGED <<args, returned>>
    /\ UNCHANGED <<variant, config, ignored, maxAttempts, attempt, statusesP,
                   statusFeed, statuses, output, outputs, failed, reason,
                   fetches, joined, retries, sleeps>>

NextTimes == EvalTimedChecks

SpecTimes == InitTimes /\ [][NextTimes]_vars

-----------------------------------------------------------------------------
(* Vocabulary of the properties: which reports survive, stated without the *)
(* loops of the code                                                       *)

AggregationKey(build, run) ==
    IF build = "suite" THEN <<run.name, run.suite>> ELSE <<run.name>>

CheckTime(run) == Coalesce(run.completed_at, run.started_at)

CheckClass(run) == checkToStatus(Coalesce(run.conclusion, Some(run.status))[1])

\* positions of the check runs that are neither ignored nor without a time
KeptChecks(feed, rule) ==
    {i \in DOMAIN feed :
        ~shouldIgnoreCheck(rule, feed[i].name) /\ CheckTime(feed[i]) # None}

\* positions of the kept check runs that are the latest of their key (the
\* first in the feed among equally late ones)
LatestChecks(build, feed, rule) ==
    LET kept == KeptChecks(feed, rule)
    IN {i \in kept :
           \A j \in kept :
               AggregationKey(build, feed[j]) = AggregationKey(build, feed[i])
               => \/ CheckTime(feed[j])[1] < CheckTime(feed[i])[1]
                  \/ CheckTime(feed[j])[1] = CheckTime(feed[i])[1] /\ i <= j}

SurvivingCheckStatuses(build, feed, rule) ==
    {CheckClass(feed[i]) : i \in LatestChecks(build, feed, rule)}

KeptStatuses(feed, rule) ==
    {i \in DOMAIN feed : ~shouldIgnoreCheck(rule, feed[i].context)}

LatestStatuses(feed, rule) ==
    LET kept == KeptStatuses(feed, rule)
    IN {i \in kept :
           \A j \in kept :
               feed[j].context = feed[i].context
               => \/ feed[j].updated_at < feed[i].updated_at
                  \/ feed[j].updated_at = feed[i].updated_at /\ i <= j}

SurvivingStatusStatuses(feed, rule) ==
    {stringToStatus(feed[i].state) : i \in LatestStatuses(feed, rule)}

\* the surviving statuses of the feeds the two promises resolved with
ChecksSurvivors == SurvivingCheckStatuses(variant, checkFeed, ignored)
StatusesSurvivors == SurvivingStatusStatuses(statusFeed, ignored)

ChecksDone == checksP = "resolved"
StatusesDone == statusesP = "resolved"

\* both aggregates of the attempt are known and run() has not gone on yet
AtJoin == pc = "fetching" /\ ChecksDone /\ StatusesDone

Permute(feed, p) == [i \in DOMAIN feed |-> feed[p[i]]]

-----------------------------------------------------------------------------
(* Properties *)

\* C1: in an attempt where the check-runs aggregate or the commit-statuses
\* aggregate is Failure, run() ends in that attempt with success=false,
\* whatever the other aggregate is, without sleeping, without a further
\* request and without another attempt.
C1_FailureStops ==
    [][ (AtJoin /\ (checks = Failure \/ statuses = Failure))
        => /\ pc' = "done"
           /\ output' = Some(FALSE)
           /\ reason' = "failure"
           /\ outputs' = outputs + 1
           /\ sleeps' = sleeps
           /\ attempt' = attempt
           /\ fetches' = fetches
           /\ ~failed' ]_vars

C1_Witness ==
    /\ pc = "done"
    /\ reason = "failure"
    /\ checks = Failure
    /\ statuses = Pending
    /\ output = Some(FALSE)
    /\ joined = 1
    /\ sleeps = 0

\* C2: in an attempt where both aggregates are Success, run() ends in that
\* attempt with success=true, without sleeping, without a further request and
\* without another attempt.
C2_SuccessStops ==
    [][ (AtJoin /\ checks = Success /\ statuses = Success)
        => /\ pc' = "done"
           /\ output' = Some(TRUE)
           /\ reason' = "success"
           /\ outputs' = outputs + 1
           /\ sleeps' = sleeps
           /\ attempt' = attempt
           /\ fetches' = fetches
           /\ ~failed' ]_vars

C2_Witness ==
    /\ pc = "done"
    /\ reason = "success"
    /\ checks = Success
    /\ statuses = Success
    /\ output = Some(TRUE)
    /\ attempt = 1
    /\ sleeps = 1

C4_TimeoutAfterMaxAttempts ==
    (pc = "done" /\ ~failed /\ retries = joined /\ maxAttempts >= 0)
    => /\ joined = maxAttempts
       /\ fetches = [checks |-> maxAttempts, statuses |-> maxAttempts]
       /\ reason = "timeout"
       /\ output = Some(FALSE)
       /\ outputs = 1

C4_Witness ==
    /\ pc = "done"
    /\ reason = "timeout"
    /\ maxAttempts = MaxAttempts
    /\ joined = MaxAttempts
    /\ retries = MaxAttempts
    /\ output = Some(FALSE)

\* C5: for each source, if a surviving status is Failure or Canceled, the
\* aggregate is Failure, whatever else survives.
C5_FailureWins ==
    /\ (ChecksDone /\ ChecksSurvivors \cap {Failure, Canceled} # {})
       => checks = Failure
    /\ (StatusesDone /\ StatusesSurvivors \cap {Failure, Canceled} # {})
       => statuses = Failure

\* a canceled check run beside one that is still pending
C5_Witness ==
    /\ ChecksDone
    /\ ChecksSurvivors = {Canceled, Pending}
    /\ checks = Failure

\* C6: for each source, if no surviving status is Failure or Canceled and one
\* is Pending, the aggregate is Pending, also beside Unknown statuses.
C6_PendingNext ==
    /\ (ChecksDone /\ ChecksSurvivors \cap {Failure, Canceled} = {}
                   /\ Pending \in ChecksSurvivors)
       => checks = Pending
    /\ (StatusesDone /\ StatusesSurvivors \cap {Failure, Canceled} = {}
                     /\ Pending \in StatusesSurvivors)
       => statuses = Pending

C6_Witness ==
    /\ StatusesDone
    /\ StatusesSurvivors = {Pending, Unknown}
    /\ statuses = Pending

\* C7: for each source, if every surviving status is Success or Skipped, the
\* aggregate is Success.
C7_AllGreenIsSuccess ==
    /\ (ChecksDone /\ ChecksSurvivors \subseteq {Success, Skipped})
       => checks = Success
    /\ (StatusesDone /\ StatusesSurvivors \subseteq {Success, Skipped})
       => statuses = Success

\* C8: a source with no surviving report has aggregate Success, check runs
\* and commit statuses alike, and with both sources empty run() sets
\* success=true in the first attempt.
C8_EmptyIsSuccess ==
    /\ (ChecksDone /\ LatestChecks(variant, checkFeed, ignored) = {})
       => checks = Success
    /\ (StatusesDone /\ LatestStatuses(statusFeed, ignored) = {})
       => statuses = Success
    /\ (pc \in {"sleeping", "done"} /\ ChecksDone /\ StatusesDone
        /\ checkFeed = <<>> /\ statusFeed = <<>> /\ attempt = 0)
       => output = Some(TRUE)

\* the feed without the reports the rule ignores
WithoutIgnoredChecks(feed, rule) ==
    SelectSeq(feed, LAMBDA run : ~shouldIgnoreCheck(rule, run.name))

WithoutIgnoredStatuses(feed, rule) ==
    SelectSeq(feed, LAMBDA st : ~shouldIgnoreCheck(rule, st.context))

\* C9: ignored reports do not influence the aggregate: it is the aggregate of
\* the feed with the ignored reports removed, under no ignore rule.
C9_IgnoredNeverCounts ==
    /\ ChecksDone
       => checks = checkChecks(variant, WithoutIgnoredChecks(checkFeed, ignored),
                               NoRule)
    /\ StatusesDone
       => statuses = checkStatuses(WithoutIgnoredStatuses(statusFeed, ignored),
                                   NoRule)

\* an ignored failure that is the last and the latest report of the feed
C9_Witness ==
    /\ ChecksDone
    /\ Len(checkFeed) = 2
    /\ shouldIgnoreCheck(ignored, checkFeed[2].name)
    /\ ~shouldIgnoreCheck(ignored, checkFeed[1].name)
    /\ CheckClass(checkFeed[2]) = Failure
    /\ CheckTime(checkFeed[2]) = Some(2)
    /\ CheckTime(checkFeed[1]) = Some(1)
    /\ checks = Success

\* the kept reports of one key have pairwise different times
DistinctCheckTimes(build, feed, rule) ==
    \A i, j \in KeptChecks(feed, rule) :
        (i # j /\ AggregationKey(build, feed[i]) = AggregationKey(build, feed[j]))
        => CheckTime(feed[i]) # CheckTime(feed[j])

DistinctStatusTimes(feed, rule) ==
    \A i, j \in KeptStatuses(feed, rule) :
        (i # j /\ feed[i].context = feed[j].context)
        => feed[i].updated_at # feed[j].updated_at

\* key -> status of the latest kept report of the key
LatestCheckByKey(build, feed, rule) ==
    LET latest == LatestChecks(build, feed, rule)
    IN [k \in {AggregationKey(build, feed[i]) : i \in latest} |->
           CheckClass(feed[CHOOSE i \in latest :
                               AggregationKey(build, feed[i]) = k])]

LatestStatusByKey(feed, rule) ==
    LET latest == LatestStatuses(feed, rule)
    IN [k \in {feed[i].context : i \in latest} |->
           stringToStatus(feed[CHOOSE i \in latest : feed[i].context = k].state)]

StatusOfKeys(map) == [k \in DOMAIN map |-> map[k][2]]

\* C10: when the reports of one key have pairwise different times, every
\* order of the feed leaves, per key, the status of the latest report, and so
\* the same aggregate.
C10_LatestWinsInAnyOrder ==
    /\ (ChecksDone /\ DistinctCheckTimes(variant, checkFeed, ignored))
       => LET latest == LatestCheckByKey(variant, checkFeed, ignored)
          IN \A p \in Permutations(DOMAIN checkFeed) :
                LET statusByName == StatusByName(variant, Permute(checkFeed, p),
                                                 ignored)
                IN /\ StatusOfKeys(statusByName) = latest
                   /\ ReduceChecksOf(variant, statusByName) = checks
    /\ (StatusesDone /\ DistinctStatusTimes(statusFeed, ignored))
       => LET latest == LatestStatusByKey(statusFeed, ignored)
          IN \A p \in Permutations(DOMAIN statusFeed) :
                LET statusByContext == StatusByContext(Permute(statusFeed, p),
                                                       ignored)
                IN /\ StatusOfKeys(statusByContext) = latest
                   /\ ReduceStatuses(statusByContext) = statuses

\* a stale failure that comes after the later success of the same check
C10_Witness ==
    /\ ChecksDone
    /\ Len(checkFeed) = 2
    /\ checkFeed[1].name = checkFeed[2].name
    /\ ~shouldIgnoreCheck(ignored, checkFeed[1].name)
    /\ CheckClass(checkFeed[1]) = Success
    /\ CheckClass(checkFeed[2]) = Failure
    /\ CheckTime(checkFeed[1]) = Some(2)
    /\ CheckTime(checkFeed[2]) = Some(1)
    /\ checks = Success

\* C11: check runs are deduplicated under the pair (name, suite id): one status
\* is stored per pair, the status of the latest report of each pair is among
\* the stored ones, and so a Failure or Canceled that is the latest of its pair
\* makes the aggregate Failure also beside a later Success of the same name in
\* another suite; commit statuses are deduplicated by context alone.
C11_KeyedByNameAndSuite ==
    /\ ChecksDone
       => LET statusByName == StatusByName(variant, checkFeed, ignored)
              latest == LatestChecks("suite", checkFeed, ignored)
          IN /\ Cardinality(DOMAIN statusByName) = Cardinality(latest)
             /\ \A i \in latest :
                   \E k \in DOMAIN statusByName :
                      /\ k[1] = checkFeed[i].name
                      /\ statusByName[k][2] = CheckClass(checkFeed[i])
             /\ (\E i \in latest : CheckClass(checkFeed[i]) \in {Failure, Canceled})
                => checks = Failure
    /\ StatusesDone
       => StatusOfKeys(StatusByContext(statusFeed, ignored))
          = LatestStatusByKey(statusFeed, ignored)

\* an aggregate of the attempt is Unknown and neither is Failure
UnknownAttempt ==
    /\ ChecksDone
    /\ StatusesDone
    /\ checks = Unknown \/ statuses = Unknown
    /\ checks # Failure
    /\ statuses # Failure

\* C12: an attempt in which an aggregate is Unknown and neither is Failure
\* sets no output and does not fail run(): run() sleeps, and then either
\* starts the next attempt or, after the last attempt, ends on the timeout
\* path with success=false.
C12_UnknownIsNonTerminal ==
    [][ /\ (pc = "fetching" /\ UnknownAttempt)
           => /\ pc' = "sleeping"
              /\ output' = None
              /\ outputs' = outputs
              /\ reason' = "none"
              /\ retries' = retries + 1
              /\ ~failed'
        /\ (pc = "sleeping" /\ UnknownAttempt /\ attempt + 1 < maxAttempts)
           => /\ pc' = "fetching"
              /\ attempt' = attempt + 1
              /\ output' = None
              /\ ~failed'
        /\ (pc = "sleeping" /\ UnknownAttempt /\ attempt + 1 >= maxAttempts)
           => /\ pc' = "done"
              /\ reason' = "timeout"
              /\ output' = Some(FALSE)
              /\ ~failed' ]_vars

\* the last attempt ended with the commit statuses Unknown beside green checks
C12_Witness ==
    /\ pc = "sleeping"
    /\ statuses = Unknown
    /\ checks = Success
    /\ attempt = MaxAttempts - 1
    /\ maxAttempts = MaxAttempts
    /\ retries = MaxAttempts
    /\ output = None
    /\ ~failed

\* C13: run() sleeps only when another attempt follows, so a run() that times
\* out after max_attempts = N >= 1 attempts has slept exactly N - 1 times.
C13_WaitOnlyBetweenAttempts ==
    /\ pc = "sleeping" => attempt + 1 < maxAttempts
    /\ (pc = "done" /\ reason = "timeout" /\ maxAttempts >= 1)
       => /\ joined = maxAttempts
          /\ sleeps = maxAttempts - 1

\* C14: once a request of an attempt is rejected, run() is over and failed
\* with no output set, and nothing follows: no further attempt, request,
\* join or sleep, also when the other request of the attempt is answered
\* after the rejection.
C14_FetchErrorIsFatal ==
    [][ (checksP' = "rejected" \/ statusesP' = "rejected")
        => /\ pc' = "done"
           /\ failed'
           /\ reason' = "error"
           /\ output' = None
           /\ outputs' = 0
           /\ attempt' = attempt
           /\ fetches' = fetches
           /\ joined' = joined
           /\ sleeps' = sleeps ]_vars

\* the check runs request of the second attempt is rejected and the commit
\* statuses of that attempt are all green
C14_Witness ==
    /\ pc = "done"
    /\ failed
    /\ checksP = "rejected"
    /\ statusesP = "resolved"
    /\ statuses = Success
    /\ attempt = 1
    /\ fetches = [checks |-> 2, statuses |-> 2]
    /\ output = None

\* a decimal numeral: an optional sign and then digits only
IsNumeral(s) ==
    LET u == IF s # <<>> /\ Head(s) \in {"-", "+"} THEN Tail(s) ELSE s
    IN u # <<>> /\ \A i \in DOMAIN u : IsDigit(u[i])

\* an input that is given and is not a number
NonNumeric(s) == s # <<>> /\ ~IsNumeral(s)

\* C15: with the token missing, the ref missing, or check_interval or
\* max_attempts given and not a number, run() fails before the loop: it is
\* marked failed, no request has been issued and no output is set.
C15_ConfigErrorIsFatal ==
    (/\ pc # "start"
     /\ \/ ~config.token
        \/ ~config.ref
        \/ NonNumeric(config.check_interval)
        \/ NonNumeric(config.max_attempts))
    => /\ pc = "done"
       /\ failed
       /\ reason = "error"
       /\ fetches = [checks |-> 0, statuses |-> 0]
       /\ output = None
       /\ outputs = 0

\* the rule has an opening and a closing "/"
Wrapped(rule) == Len(rule) >= 2 /\ rule[1] = "/" /\ rule[Len(rule)] = "/"

\* name stands in the rule between two commas, or between a comma and an end
\* of the rule, or is the whole rule
IsItem(rule, name) ==
    /\ \A i \in DOMAIN name : name[i] # ","
    /\ \E i \in 1..(Len(rule) + 1) :
          /\ i + Len(name) - 1 <= Len(rule)
          /\ SubSeq(rule, i, i + Len(name) - 1) = name
          /\ i = 1 \/ rule[i - 1] = ","
          /\ i + Len(name) - 1 = Len(rule) \/ rule[i + Len(name)] = ","

\* C16: shouldIgnoreCheck returns false under the empty rule, and under a rule
\* that is not wrapped in "/" it returns true exactly when the name is, as it
\* stands, one of the items between the commas of the rule.
C16_ListRuleIsExact ==
    (pc = "returned" /\ args # <<>>)
    => LET rule == args[1]
           name == args[2]
       IN /\ rule = <<>> => returned = FALSE
          /\ (rule # <<>> /\ ~Wrapped(rule))
             => (returned = TRUE <=> IsItem(rule, name))

\* C17: checkToStatus is given the conclusion of the check run when there is
\* one and its status otherwise, and returns for every string: Success for
\* success and neutral, Failure for failure and timed_out, Pending for
\* pending, action_required, queued and in_progress, Skipped for skipped,
\* Canceled for canceled and cancelled, Unknown for every other string.
C17_CheckClassifierTable ==
    (pc = "returned" /\ args[1] = "checkToStatus")
    => LET raw == IF args[2] # None THEN args[2][1] ELSE args[3]
       IN /\ ~failed
          /\ returned \in Status
          /\ raw \in {"success", "neutral"} <=> returned = Success
          /\ raw \in {"failure", "timed_out"} <=> returned = Failure
          /\ raw \in {"pending", "action_required", "queued", "in_progress"}
             <=> returned = Pending
          /\ raw = "skipped" <=> returned = Skipped
          /\ raw \in {"canceled", "cancelled"} <=> returned = Canceled

\* a finished check run that was canceled, in the American spelling
C17_Witness ==
    /\ pc = "returned"
    /\ args = <<"checkToStatus", Some("canceled"), "completed">>
    /\ returned = Canceled

\* C18: stringToStatus returns for every string: Success for success, Failure
\* for failure, Pending for pending, and for every other string Unknown with
\* a warning, never an error and never Failure.
C18_StatusClassifierTable ==
    (pc = "returned" /\ args[1] = "stringToStatus")
    => LET raw == args[2]
       IN /\ ~failed
          /\ returned \in Status
          /\ raw = "success" <=> returned = Success
          /\ raw = "failure" <=> returned = Failure
          /\ raw = "pending" <=> returned = Pending
          /\ raw \notin {"success", "failure", "pending"}
             <=> (returned = Unknown /\ warnings = {<<"unhandled status", raw>>})

\* the state error of a commit status
C18_Witness ==
    /\ pc = "returned"
    /\ args = <<"stringToStatus", "error">>
    /\ returned = Unknown
    /\ warnings # {}

\* C19: for each source, the aggregate is Unknown exactly when no surviving
\* status is Failure, Canceled or Pending and one is Unknown, and then a
\* warning that carries the status stored for every key has been surfaced.
C19_UnknownExactlyWhen ==
    /\ ChecksDone
       => /\ checks = Unknown
             <=> /\ ChecksSurvivors \cap {Failure, Canceled, Pending} = {}
                 /\ Unknown \in ChecksSurvivors
          /\ checks = Unknown
             => \E w \in warnings :
                   /\ w[1] = "Unknown checks"
                   /\ StatusOfKeys(w[2])
                      = LatestCheckByKey(variant, checkFeed, ignored)
    /\ StatusesDone
       => /\ statuses = Unknown
             <=> /\ StatusesSurvivors \cap {Failure, Canceled, Pending} = {}
                 /\ Unknown \in StatusesSurvivors
          /\ statuses = Unknown
             => \E w \in warnings :
                   /\ w[1] = "unknown statuses"
                   /\ StatusOfKeys(w[2]) = LatestStatusByKey(statusFeed, ignored)

\* a commit status in a state that is not classified beside a green one
C19_Witness ==
    /\ StatusesDone
    /\ StatusesSurvivors = {Unknown, Success}
    /\ statuses = Unknown
    /\ \E w \in warnings : w[1] = "unknown statuses" /\ Cardinality(DOMAIN w[2]) = 2

\* C20: of the reports of one key, the stored status is that of the report
\* with the greatest time and, among several with that time, of the one that
\* comes first in the feed: a report replaces the stored one only when its
\* time is strictly greater.
C20_TieKeepsFirst ==
    /\ ChecksDone
       => LET statusByName == StatusByName(variant, checkFeed, ignored)
              kept == KeptChecks(checkFeed, ignored)
          IN \A i \in kept :
                (\A j \in kept :
                    AggregationKey(variant, checkFeed[j])
                       = AggregationKey(variant, checkFeed[i])
                    => \/ CheckTime(checkFeed[j])[1] < CheckTime(checkFeed[i])[1]
                       \/ /\ CheckTime(checkFeed[j]) = CheckTime(checkFeed[i])
                          /\ i <= j)
                => statusByName[CheckKey(variant, checkFeed[i])]
                   = <<DateGetTime(CheckTime(checkFeed[i])[1]),
                       CheckClass(checkFeed[i])>>
    /\ StatusesDone
       => LET statusByContext == StatusByContext(statusFeed, ignored)
              kept == KeptStatuses(statusFeed, ignored)
          IN \A i \in kept :
                (\A j \in kept :
                    statusFeed[j].context = statusFeed[i].context
                    => \/ statusFeed[j].updated_at < statusFeed[i].updated_at
                       \/ /\ statusFeed[j].updated_at = statusFeed[i].updated_at
                          /\ i <= j)
                => statusByContext[statusFeed[i].context]
                   = <<DateGetTime(statusFeed[i].updated_at),
                       stringToStatus(statusFeed[i].state)>>

\* a success and then a failure of the same check with the same time
C20_Witness ==
    /\ ChecksDone
    /\ Len(checkFeed) = 2
    /\ AggregationKey(variant, checkFeed[1]) = AggregationKey(variant, checkFeed[2])
    /\ ~shouldIgnoreCheck(ignored, checkFeed[1].name)
    /\ CheckTime(checkFeed[1]) = Some(MaxTime)
    /\ CheckTime(checkFeed[2]) = Some(MaxTime)
    /\ CheckClass(checkFeed[1]) = Success
    /\ CheckClass(checkFeed[2]) = Failure
    /\ checks = Success

\* the feed without the check runs that have neither time
WithoutUntimedChecks(feed) ==
    SelectSeq(feed, LAMBDA run : CheckTime(run) # None)

\* C21: a check run with neither a completion time nor a start time is
\* dropped with a warning: the stored statuses and the aggregate are those of
\* the feed without it, whatever its status is and wherever it stands.
C21_UntimedIsDropped ==
    ChecksDone
    => /\ StatusByName(variant, checkFeed, ignored)
          = StatusByName(variant, WithoutUntimedChecks(checkFeed), ignored)
       /\ checks = checkChecks(variant, WithoutUntimedChecks(checkFeed), ignored)
       /\ \A i \in DOMAIN checkFeed :
             (CheckTime(checkFeed[i]) = None
              /\ ~shouldIgnoreCheck(ignored, checkFeed[i].name))
             => <<"no completed_at or started_at for check", checkFeed[i].name>>
                   \in warnings

\* a failure without a time after a success of the same check
C21_Witness ==
    /\ ChecksDone
    /\ Len(checkFeed) = 2
    /\ CheckTime(checkFeed[1]) # None
    /\ CheckClass(checkFeed[1]) = Success
    /\ CheckTime(checkFeed[2]) = None
    /\ CheckClass(checkFeed[2]) = Failure
    /\ checkFeed[1].name = checkFeed[2].name
    /\ checks = Success
    /\ warnings # {}

\* a check run that has completed / that has started and not completed
Completed(run) == run.completed_at # None
StartedOnly(run) == run.completed_at = None /\ run.started_at # None

\* C22: a check run is ordered by its completion time when it has one and by
\* its start time otherwise.  Of a completed run and a started-only run of
\* the same key: when the start is later than the completion, the completed
\* run is superseded, and the key is Pending when nothing of the key is as
\* late as that start; when the start is earlier than the completion, the
\* started-only run does not hold the key.
C22_CompletionElseStart ==
    ChecksDone
    => LET statusByName == StatusByName(variant, checkFeed, ignored)
           kept == KeptChecks(checkFeed, ignored)
       IN \A i, j \in kept :
             (/\ CheckKey(variant, checkFeed[i]) = CheckKey(variant, checkFeed[j])
              /\ Completed(checkFeed[i])
              /\ StartedOnly(checkFeed[j]))
             => LET done == checkFeed[i].completed_at[1]
                    start == checkFeed[j].started_at[1]
                    stored == statusByName[CheckKey(variant, checkFeed[j])]
                IN /\ start > done
                      => /\ stored[1] >= DateGetTime(start)
                         /\ (\A k \in kept :
                                CheckKey(variant, checkFeed[k])
                                   = CheckKey(variant, checkFeed[j])
                                => IF Completed(checkFeed[k])
                                   THEN checkFeed[k].completed_at[1] < start
                                   ELSE checkFeed[k].started_at[1] <= start)
                            => stored = <<DateGetTime(start), Pending>>
                   /\ start < done
                      => stored[1] >= DateGetTime(done)

\* a run in progress that started after the success of the same check
C22_Witness ==
    /\ ChecksDone
    /\ Len(checkFeed) = 2
    /\ Completed(checkFeed[1])
    /\ CheckClass(checkFeed[1]) = Success
    /\ StartedOnly(checkFeed[2])
    /\ checkFeed[2].started_at[1] > checkFeed[1].completed_at[1]
    /\ checks = Pending

\* the two requests of the attempt are out: each is pending or answered
BothIssued ==
    /\ checksP \in {"pending", "resolved", "rejected"}
    /\ statusesP \in {"pending", "resolved", "rejected"}
    /\ fetches = [checks |-> attempt + 1, statuses |-> attempt + 1]

\* C23: while run() awaits an attempt, both requests have been issued; the
\* attempt is decided only when both are answered; and what it is decided
\* from does not depend on which was answered first: each aggregate is that
\* of its own feed, the warnings are those of the two feeds, and the outcome
\* is the verdict of the two aggregates.
C23_JoinOfBothFetches ==
    /\ [](pc = "fetching" => BothIssued)
    /\ [](AtJoin
          => /\ checks = checkChecks(variant, checkFeed, ignored)
             /\ statuses = checkStatuses(statusFeed, ignored)
             /\ warnings = checkChecksWarnings(variant, checkFeed, ignored)
                              \cup combinedStatusToStatusWarnings(statusFeed, ignored))
    /\ [][ (pc = "fetching" /\ pc' # "fetching" /\ ~failed')
           => /\ ChecksDone
              /\ StatusesDone
              /\ joined' = joined + 1
              /\ Verdict(checks, statuses) = "success"
                 <=> (pc' = "done" /\ output' = Some(TRUE))
              /\ Verdict(checks, statuses) = "failure"
                 <=> (pc' = "done" /\ output' = Some(FALSE))
              /\ Verdict(checks, statuses) = "retry"
                 <=> (pc' = "sleeping" /\ output' = None) ]_vars

\* the second attempt with both requests answered
C23_Witness ==
    /\ AtJoin
    /\ attempt = 1
    /\ fetches = [checks |-> 2, statuses |-> 2]
    /\ checks = Success
    /\ statuses = Pending
    /\ Len(checkFeed) = 2
    /\ Len(statusFeed) = 1

Succeeded == reason = "success" /\ output = Some(TRUE) /\ ~failed
Failed == reason = "failure" /\ output = Some(FALSE) /\ ~failed
TimedOut == reason = "timeout" /\ output = Some(FALSE) /\ ~failed
FatalExit == reason = "error" /\ output = None /\ failed

\* how many of the four endings the state shows
Endings ==
    Cardinality({e \in {"succeeded", "failed", "timedout", "fatal"} :
                    \/ e = "succeeded" /\ Succeeded
                    \/ e = "failed" /\ Failed
                    \/ e = "timedout" /\ TimedOut
                    \/ e = "fatal" /\ FatalExit})

\* max(maxAttempts, 0)
AttemptLimit == IF maxAttempts > 0 THEN maxAttempts ELSE 0

\* C25: with every request answered and every timer fired in the end, run()
\* always comes to its end, whatever the two sources answer; at its end it
\* shows exactly one of success, failure, timeout and the fatal exit, and up
\* to there it has made at most max_attempts attempts.
C25_AlwaysEnds ==
    /\ <>(pc = "done")
    /\ [](pc = "done" => Endings = 1)
    /\ [](pc # "done" => (Endings = 0 /\ output = None /\ ~failed))
    /\ [](/\ joined <= AttemptLimit
          /\ fetches.checks <= AttemptLimit
          /\ fetches.statuses <= AttemptLimit)

\* the longest session: every attempt made and none of them terminal
C25_Witness ==
    /\ pc = "done"
    /\ TimedOut
    /\ maxAttempts = MaxAttempts
    /\ joined = MaxAttempts
    /\ fetches = [checks |-> MaxAttempts, statuses |-> MaxAttempts]

\* success has been set, or the run has been marked failed
Terminal == output # None \/ failed

\* C26: the success output is set at most once, and never together with a
\* failed run; from the moment it is set or the run is marked failed, run()
\* is at its end and stays there: no request is issued, no wait begun, no
\* attempt started or joined, and neither the output nor the mark changes,
\* so no session sets both true and false.
C26_TerminalIsAbsorbing ==
    /\ [](outputs <= 1)
    /\ [](outputs = 1 <=> output # None)
    /\ [](Terminal <=> pc = "done")
    /\ [](~(output # None /\ failed))
    /\ [][ Terminal => UNCHANGED <<pc, output, outputs, failed, reason, fetches,
                                   sleeps, attempt, joined, retries>> ]_vars

\* the run has been marked failed in its second attempt with a request
\* still unanswered
C26_Witness ==
    /\ pc = "done"
    /\ failed
    /\ attempt = 1
    /\ checksP = "rejected"
    /\ statusesP = "pending"
    /\ fetches = [checks |-> 2, statuses |-> 2]

\* the inputs pass the tests ahead of the loop and max_attempts reads as n
MaxAttemptsIs(n) == ~ConfigError(config) /\ maxAttemptsOf(config) = Some(n)

\* the largest number of attempts the inputs allow: max(max_attempts, 0),
\* and none with an input that fails the tests ahead of the loop
AttemptsAllowed ==
    IF ConfigError(config) \/ maxAttemptsOf(config)[1] <= 0
    THEN 0
    ELSE maxAttemptsOf(config)[1]

\* C27: when max_attempts reads as zero or as a negative number, run() goes
\* from its start straight to the code after the loop: no request is issued,
\* no wait begun, the timeout warning is written and success is set to false;
\* and no session starts or joins more attempts than max(max_attempts, 0).
C27_NoAttemptWithoutBudget ==
    /\ [](\A n \in -1..0 :
            (MaxAttemptsIs(n) /\ pc # "start")
            => /\ pc = "done"
               /\ reason = "timeout"
               /\ output = Some(FALSE)
               /\ ~failed
               /\ warnings = {<<"timed out waiting for checks to complete">>}
               /\ fetches = [checks |-> 0, statuses |-> 0]
               /\ checksP = "idle"
               /\ statusesP = "idle"
               /\ sleeps = 0
               /\ joined = 0)
    /\ [](/\ fetches.checks <= AttemptsAllowed
          /\ fetches.statuses <= AttemptsAllowed
          /\ joined <= AttemptsAllowed
          /\ attempt <= AttemptsAllowed)

\* run() has ended with max_attempts of -1
C27_Witness ==
    /\ MaxAttemptsIs(-1)
    /\ pc = "done"
    /\ output = Some(FALSE)
    /\ fetches = [checks |-> 0, statuses |-> 0]
    /\ sleeps = 0

=============================================================================
